---------------------------- MODULE Spec2Model ----------------------------
(***************************************************************************)
(* Model of the merger-simulation backend (src/backend/app.py) and of the  *)
(* dashboard's risk classifier (src/ui/formatting.py).                     *)
(*                                                                         *)
(* Numbers.  The program computes in IEEE doubles.  The model computes in  *)
(* decimal fixed point: a real x is the integer x * Unit, and every        *)
(* multiplication and division rounds to the nearest unit, as every float  *)
(* operation rounds to the nearest representable value.  Additions and     *)
(* subtractions are exact.  One unit plays the role of one ulp, so the     *)
(* code's tolerances (1e-9, 1e-12), which are millions of ulps but far     *)
(* below any share, are kept as a few units (Tol9) and as zero (Eps12).    *)
(* HHI values, thresholds and seeds are plain integers, as in the code.    *)
(***************************************************************************)
EXTENDS Integers, Sequences, FiniteSets, TLC

VARIABLES
    pc,        \* position of the handler under study: "call" or "done"
    request,   \* the arguments of the call
    response,  \* what the call returned (or raised)
    rng,       \* the closure cell `seed` of the generator made last
    log        \* completed /metrics evaluations, in order

vars == <<pc, request, response, rng, log>>

Null == [raised |-> "unset"]

-----------------------------------------------------------------------------
(* Fixed-point arithmetic standing for float arithmetic *)

Unit == 100 * 100

\* the decimal literal n/d of the source, in units
Dec(n, d) == (n * Unit) \div d

Abs(x) == IF x < 0 THEN -x ELSE x
Max(a, b) == IF a >= b THEN a ELSE b
Min(a, b) == IF a <= b THEN a ELSE b

\* n/d rounded to the nearest integer (d > 0), halves upward
RoundDiv(n, d) == (2 * n + d) \div (2 * d)

\* float product a*b; both factors are split into whole and fractional
\* parts so that no intermediate exceeds the checker's 32-bit integers
FMul(a, b) ==
    LET ah == a \div Unit
        al == a % Unit
        bh == b \div Unit
        bl == b % Unit
    IN  ah * bh * Unit + ah * bl + al * bh + RoundDiv(al * bl, Unit)

\* float quotient a/b for b > 0 (callers guard b = 0: Python raises there)
FDiv(a, b) ==
    (a \div b) * Unit + RoundDiv((a % b) * Unit, b)

RECURSIVE Sum(_)
Sum(s) == IF s = <<>> THEN 0 ELSE Head(s) + Sum(Tail(s))

\* Python's round(x) to an integer: halves go to the even neighbour
PyRound(n, d) ==
    LET q == n \div d
        r == n % d
    IN  IF 2 * r < d THEN q
        ELSE IF 2 * r > d THEN q + 1
        ELSE IF q % 2 = 0 THEN q ELSE q + 1

\* Python's round(x, digits) for digits in 0..4
RoundTo(x, digits) ==
    LET step == CASE digits = 1 -> Unit \div 10
                  [] digits = 2 -> Unit \div 100
                  [] digits = 3 -> Unit \div 1000
                  [] OTHER      -> 1
    IN  PyRound(x, step) * step

\* abs(x - 1.0) compared with 1e-9, and x compared with 1e-12
Tol9 == 16
Eps12 == 0

-----------------------------------------------------------------------------
(* normalize_shares: src/backend/app.py 68-99 *)

\* the even-split branch, lines 73-78: C / n raises when n = 0
EvenSplit(r, F_min) ==
    LET C == Unit - F_min
        n == Len(r)
    IN  IF n = 0
        THEN [raised |-> "ZeroDivisionError", inside |-> <<>>, fringe |-> 0]
        ELSE LET s == [i \in 1..n |-> RoundDiv(C, n)]
             IN  [raised |-> "", inside |-> s, fringe |-> Unit - Sum(s)]

\* the proportional branch with its numerical guard, lines 79-91
ScaleBranch(r, R, F_min) ==
    LET C     == Unit - F_min
        scale == FDiv(C, R)
        s     == [i \in 1..Len(r) |-> FMul(r[i], scale)]
        F     == Unit - Sum(s)
        S     == Sum(s)
        take  == F_min - F
        s2    == IF S > 0
                 THEN [i \in 1..Len(r) |->
                          Max(0, s[i] - FMul(take, FDiv(s[i], S)))]
                 ELSE s
    IN  IF F < F_min
        THEN [raised |-> "", inside |-> s2, fringe |-> Unit - Sum(s2)]
        ELSE [raised |-> "", inside |-> s, fringe |-> F]

\* the final tidy, lines 94-97
Tidy(out) ==
    LET total == Sum(out.inside) + out.fringe
    IN  IF Abs(total - Unit) > Tol9
        THEN [out EXCEPT !.fringe = out.fringe + (Unit - total)]
        ELSE out

normalize_shares(raw_inside, F_min) ==
    LET r   == [i \in 1..Len(raw_inside) |-> Max(0, raw_inside[i])]
        R   == Sum(r)
        out == IF R <= Eps12 THEN EvenSplit(r, F_min)
                             ELSE ScaleBranch(r, R, F_min)
    IN  IF out.raised # ""
        THEN [raised |-> out.raised, inside |-> <<>>, fringe |-> 0,
              fringe_floor |-> F_min]
        ELSE [raised |-> "", inside |-> Tidy(out).inside,
              fringe |-> Tidy(out).fringe, fringe_floor |-> F_min]

-----------------------------------------------------------------------------
(* Market structure: src/backend/app.py 56-66, 101-103, 116-134 *)

\* the floor without the clamp of line 66
dynamic_fringe_floor_unclamped(flex, entry, innov) ==
    Dec(20, 100) + FMul(Dec(15, 100), flex) + FMul(-Dec(10, 100), entry)
        + FMul(Dec(5, 100), innov - Unit)

\* the floor with the sign of the barriers term of line 62 turned
dynamic_fringe_floor_barriers_up(flex, entry, innov) ==
    Min(Dec(50, 100), Max(Dec(10, 100),
        Dec(20, 100) + FMul(Dec(15, 100), flex) + FMul(Dec(10, 100), entry)
            + FMul(Dec(5, 100), innov - Unit)))

dynamic_fringe_floor(flex, entry, innov) ==
    LET base     == Dec(20, 100)
        breadth  == FMul(Dec(15, 100), flex)
        barriers == FMul(-Dec(10, 100), entry)
        innov_fx == FMul(Dec(5, 100), innov - Unit)
        f        == base + breadth + barriers + innov_fx
    IN  Min(Dec(50, 100), Max(Dec(10, 100), f))

\* sum((s*100.0)**2 for s in shares), in units
SumSquares(shares) ==
    Sum([i \in 1..Len(shares) |-> FMul(shares[i] * 100, shares[i] * 100)])

hhi_from_components(shares) == PyRound(SumSquares(shares), Unit)

compute_hhi(shares) == PyRound(SumSquares(shares), Unit)

BREADTH_ALPHA == Dec(30, 100)

\* the fringe grown but the inside shares left unscaled before line 125
apply_market_breadth_unscaled(inside, fringe, flex) ==
    LET reassign   == FMul(FMul(BREADTH_ALPHA, flex), Sum(inside))
        fringe_adj == Min(Unit, Max(0, fringe + reassign))
        total      == Sum(inside) + fringe_adj
        norm       == IF total > 0 THEN FDiv(Unit, total) ELSE Unit
    IN  [inside |-> [i \in 1..Len(inside) |-> FMul(inside[i], norm)],
         fringe |-> FMul(fringe_adj, norm)]

apply_market_breadth(inside, fringe, flex) ==
    LET inside_sum == Sum(inside)
        reassign   == FMul(FMul(BREADTH_ALPHA, flex), inside_sum)
        scale      == IF inside_sum > 0
                      THEN FDiv(inside_sum - reassign, inside_sum)
                      ELSE Unit
        inside_adj == [i \in 1..Len(inside) |-> FMul(inside[i], scale)]
        fringe_adj == Min(Unit, Max(0, fringe + reassign))
        total      == Sum(inside_adj) + fringe_adj
        norm       == IF total > 0 THEN FDiv(Unit, total) ELSE Unit
    IN  [inside |-> [i \in 1..Len(inside) |-> FMul(inside_adj[i], norm)],
         fringe |-> FMul(fringe_adj, norm)]

-----------------------------------------------------------------------------
(* Threshold classifier of the backend: src/backend/app.py 42-54 *)

POLICY_THRESHOLDS ==
    [p \in {"EU", "SA"} |->
        IF p = "EU"
        THEN [deltaHigh |-> 150, postHigh |-> 2500, deltaMed |-> 100, postMed |-> 2000]
        ELSE [deltaHigh |-> 100, postHigh |-> 2000, deltaMed |-> 50, postMed |-> 1500]]

\* POLICY_THRESHOLDS.get(policy, POLICY_THRESHOLDS["EU"])
ThresholdsFor(policy) ==
    IF policy \in DOMAIN POLICY_THRESHOLDS
    THEN POLICY_THRESHOLDS[policy]
    ELSE POLICY_THRESHOLDS["EU"]

\* risk_level with strict comparisons: a pair sitting exactly on a threshold
\* falls one class lower
risk_level_strict(pre_hhi, post_hhi, policy) ==
    LET TH    == ThresholdsFor(policy)
        delta == post_hhi - pre_hhi
    IN  IF delta > TH.deltaHigh \/ post_hhi > TH.postHigh THEN "High"
        ELSE IF delta > TH.deltaMed \/ post_hhi > TH.postMed THEN "Medium"
        ELSE "Low"

risk_level(pre_hhi, post_hhi, policy) ==
    LET TH    == ThresholdsFor(policy)
        delta == post_hhi - pre_hhi
    IN  IF delta >= TH.deltaHigh \/ post_hhi >= TH.postHigh THEN "High"
        ELSE IF delta >= TH.deltaMed \/ post_hhi >= TH.postMed THEN "Medium"
        ELSE "Low"

-----------------------------------------------------------------------------
(* Seeded generator: src/backend/app.py 105-114.  A 32-bit word is the pair *)
(* <<hi, lo>> of its 16-bit halves.                                         *)

W16 == 256 * 256

ToWord(n) == <<(n \div W16) % W16, n % W16>>

RECURSIVE Xor16(_, _, _)
Xor16(x, y, bits) ==
    IF bits = 0 THEN 0
    ELSE ((x + y) % 2) + 2 * Xor16(x \div 2, y \div 2, bits - 1)

RECURSIVE Or16(_, _, _)
Or16(x, y, bits) ==
    IF bits = 0 THEN 0
    ELSE (IF x % 2 = 1 \/ y % 2 = 1 THEN 1 ELSE 0)
             + 2 * Or16(x \div 2, y \div 2, bits - 1)

Xor32(a, b) == <<Xor16(a[1], b[1], 16), Xor16(a[2], b[2], 16)>>

\* t | c for a constant c below 2^16
OrLow(a, c) == <<a[1], Or16(a[2], c, 16)>>

Pow2(k) == 2 ^ k

\* t >> k for 0 < k < 16
Shr32(a, k) ==
    <<a[1] \div Pow2(k), (a[2] \div Pow2(k)) + (a[1] % Pow2(k)) * Pow2(16 - k)>>

\* a + b without the & 0xFFFFFFFF
Add32_nowrap(a, b) ==
    LET lo == a[2] + b[2]
    IN  <<a[1] + b[1] + (lo \div W16), lo % W16>>

\* (a + b) & 0xFFFFFFFF
Add32(a, b) ==
    LET lo == a[2] + b[2]
    IN  <<(a[1] + b[1] + (lo \div W16)) % W16, lo % W16>>

\* x * y for 16-bit x, y, as the word <<hi, lo>> (x is split into bytes)
Mul16(x, y) ==
    LET p1 == (x \div 256) * y
        p0 == (x % 256) * y
        lo == (p1 % 256) * 256 + (p0 % W16)
    IN  <<((p1 \div 256) + (p0 \div W16) + (lo \div W16)) % W16, lo % W16>>

\* (a * b) & 0xFFFFFFFF
Mul32(a, b) ==
    LET low   == Mul16(a[2], b[2])
        cross == Mul16(a[1], b[2])[2] + Mul16(a[2], b[1])[2]
    IN  <<(low[1] + cross) % W16, low[2]>>

\* line 109: seed = (seed + 0x6D2B79F5) & 0xFFFFFFFF
NextSeed(cell) == Add32(cell, <<27947, 31221>>)

\* line 113: t ^ (t >> 14)
MixOut(t2) == Xor32(t2, Shr32(t2, 14))

\* line 112: t ^= t + imul(t ^ (t >> 7), t | 61)
MixStep(t1) ==
    MixOut(Xor32(t1, Add32(t1, Mul32(Xor32(t1, Shr32(t1, 7)), OrLow(t1, 61)))))

\* lines 110-113: the mixed word whose quotient by 2^32 is returned
Mix(seed) == MixStep(Mul32(Xor32(seed, Shr32(seed, 15)), OrLow(seed, 1)))

\* word / 4294967296 as a float in [0, 1), cut to whole units
WordToFloat(w) == (w[1] * Unit + (w[2] * Unit) \div W16) \div W16

\* a generator that keeps one module-level cell and seeds it only once
mulberry32_shared(seed) == IF rng = <<0, 0>> THEN ToWord(seed) ELSE rng

\* the closure cell right after mulberry32(seed) returns rng
mulberry32(seed) == ToWord(seed)

\* one call rng(): the new cell and the value returned
rng_call(cell) ==
    [cell |-> NextSeed(cell), value |-> WordToFloat(Mix(NextSeed(cell)))]

\* generators that all read and write one cell instead of their own
stream_call_shared(cells, g) ==
    LET d == rng_call(cells[1])
    IN  [cells |-> [h \in DOMAIN cells |-> d.cell], value |-> d.value]

\* one call of the g-th closure: `nonlocal seed` is that closure's own cell
stream_call(cells, g) ==
    LET d == rng_call(cells[g])
    IN  [cells |-> [cells EXCEPT ![g] = d.cell], value |-> d.value]

\* n successive calls on one closure
RECURSIVE RandStream(_, _)
RandStream(cell, n) ==
    IF n = 0 THEN <<>>
    ELSE LET d == rng_call(cell)
         IN  <<d>> \o RandStream(d.cell, n - 1)

-----------------------------------------------------------------------------
(* vmm_predict: src/backend/app.py 136-196 *)

MonthLabel(i) ==
    IF i - 12 < 0 THEN ToString(i - 12)
    ELSE IF i - 12 > 0 THEN "+" \o ToString(i - 12)
    ELSE "M"

\* indices are those of range(25), 0..24; sequences are 1-based
Months == [j \in 1..25 |-> MonthLabel(j - 1)]

BpsImpact(params, hhi_delta) ==
    FMul(FMul(FMul(2 * Unit + Dec(2, 100) * hhi_delta,
                   Unit + FMul(Dec(5, 10), params.conduct)),
              Unit + FMul(Dec(3, 10), params.entry)),
         Unit - FMul(Dec(2, 10), params.innov))

RawPassThrough(params) ==
    Dec(3, 10) + FMul(Dec(4, 10), params.conduct)
        + FMul(Dec(2, 10), params.entry) - FMul(Dec(1, 10), params.flex)

\* None is the empty tuple, a present value v the tuple <<v>>
\* lines 145-152: twelve pre-merger observations, then None
ActualSeries(rand) ==
    [j \in 1..25 |->
        IF j - 1 < 12
        THEN <<150 * Unit + (rand[j].value - Dec(5, 10)) * 10>>
        ELSE <<>>]

\* line 161: actual[i] or base_value
ActualOr(a) == IF a = <<>> \/ a = <<0>> THEN 150 * Unit ELSE a[1]

\* lines 158-170: smoothed history, then the projected uplift
VmmSeries(rand, actual, bps_impact) ==
    [j \in 1..25 |->
        IF j - 1 < 12
        THEN ActualOr(actual[j]) + (rand[12 + j].value - Dec(5, 10)) * 2
        ELSE LET months_post_merger == (j - 1) - 11
                 impact_factor ==
                     Min(RoundDiv(months_post_merger * Unit, 6), Unit)
             IN  150 * Unit + FMul(bps_impact, impact_factor)
                     + (rand[12 + j].value - Dec(5, 10)) * 5]

\* compute_metrics lines 293-294: the clamped pass-through
ClampedPassThrough(params) ==
    Max(Dec(5, 100), Min(Dec(95, 100), RawPassThrough(params)))

\* src/core/metrics.py lines 13-18: the dashboard's pass-through composite
core_pass_through(conduct, demand_flex, entry_barriers) ==
    LET base      == Dec(5, 10) + FMul(Dec(7, 10), conduct)
        breadth   == Dec(8, 10) - FMul(Dec(4, 10), demand_flex)
        frictions == Dec(7, 10) + FMul(Dec(6, 10), entry_barriers)
    IN  Max(Dec(3, 10), Min(Dec(12, 10), FMul(FMul(base, breadth), frictions)))

\* lines 173-186: +/- 3 before the merger, +/- 6 after
ConfBand(vmm) ==
    [lower |-> [j \in 1..25 |->
                   IF j - 1 < 12 THEN vmm[j] - 3 * Unit ELSE vmm[j] - 6 * Unit],
     upper |-> [j \in 1..25 |->
                   IF j - 1 < 12 THEN vmm[j] + 3 * Unit ELSE vmm[j] + 6 * Unit]]

\* lines 188-196: the returned dict, and the closure cell after 37 draws
VmmResult(params, rand, actual, vmm, bps_impact) ==
    [bps_impact   |-> bps_impact,
     pass_through |-> RawPassThrough(params),
     conf_band    |-> ConfBand(vmm),
     series       |-> [actual |-> actual, vmm |-> vmm],
     cell         |-> rand[37].cell]

\* lines 158-196 once actual and bps_impact are known
VmmFrom(params, rand, actual, bps_impact) ==
    VmmResult(params, rand, actual, VmmSeries(rand, actual, bps_impact), bps_impact)

\* lines 145-196 on the closure's 37 draws
VmmDraws(params, rand, hhi_delta) ==
    VmmFrom(params, rand, ActualSeries(rand), BpsImpact(params, hhi_delta))

\* line 138: rand = mulberry32(seed), then the body on its draws
vmm_predict(params, seed, hhi_delta) ==
    VmmDraws(params, RandStream(mulberry32(seed), 37), hhi_delta)

-----------------------------------------------------------------------------
(* compute_welfare: src/backend/app.py 200-229 *)

compute_welfare(bps, pass_through, conduct, entry, innov) ==
    LET k          == FDiv(Unit, 15 * Unit)
        cons       == FMul(FMul(-pass_through, bps), k)
        alpha      == Dec(70, 100)
        beta       == Dec(40, 100)
        gamma      == Dec(30, 100)
        efficiency == Max(0, FMul(alpha, innov - Unit) + FMul(beta, entry)
                                 - FMul(gamma, conduct))
        merged     == FMul(FMul(FMul(Unit - pass_through, bps), k), Dec(6, 10))
                          + efficiency
        rivals     == FMul(FMul(IF pass_through >= Dec(5, 10)
                                THEN Dec(10, 100) ELSE -Dec(5, 100), bps), k)
        dwl_base   == FMul(FMul(FMul(Dec(50, 100), pass_through), bps), k)
        deadweight == -Max(0, FMul(dwl_base,
                                   Unit - FMul(Dec(6, 10), Min(Unit, efficiency))))
        net        == cons + merged + rivals + deadweight
    IN  [cons |-> RoundTo(cons, 3), merged |-> RoundTo(merged, 3),
         rivals |-> RoundTo(rivals, 3), deadweight |-> RoundTo(deadweight, 3),
         net |-> RoundTo(net, 3)]

-----------------------------------------------------------------------------
(* The /metrics handler: src/backend/app.py 238-341 *)

\* the shares of the banks whose selected flag equals want, in order
RECURSIVE Pick(_, _, _)
Pick(shares, selected, want) ==
    IF shares = <<>> THEN <<>>
    ELSE (IF Head(selected) = want THEN <<Head(shares)>> ELSE <<>>)
             \o Pick(Tail(shares), Tail(selected), want)

\* the merged entity left out of the post-merger components
Concentration_no_merged(inside_shares, selected, fringe) ==
    LET pre_components  == inside_shares \o <<fringe>>
        hhi_pre         == hhi_from_components(pre_components)
        rivals          == Pick(inside_shares, selected, FALSE)
        post_components == rivals \o <<fringe>>
        hhi_post        == hhi_from_components(post_components)
    IN  [pre |-> hhi_pre, post |-> hhi_post, delta |-> hhi_post - hhi_pre]

\* the selected firms counted twice: merged and still among the rivals
Concentration_double_count(inside_shares, selected, fringe) ==
    LET pre_components  == inside_shares \o <<fringe>>
        hhi_pre         == hhi_from_components(pre_components)
        merged_share    == Sum(Pick(inside_shares, selected, TRUE))
        post_components == <<merged_share>> \o inside_shares \o <<fringe>>
        hhi_post        == hhi_from_components(post_components)
    IN  [pre |-> hhi_pre, post |-> hhi_post, delta |-> hhi_post - hhi_pre]

\* the fringe counted into the merged entity
Concentration_fringe_merged(inside_shares, selected, fringe) ==
    LET pre_components  == inside_shares \o <<fringe>>
        hhi_pre         == hhi_from_components(pre_components)
        merged_share    == Sum(Pick(inside_shares, selected, TRUE)) + fringe
        rivals          == Pick(inside_shares, selected, FALSE)
        post_components == <<merged_share>> \o rivals
        hhi_post        == hhi_from_components(post_components)
    IN  [pre |-> hhi_pre, post |-> hhi_post, delta |-> hhi_post - hhi_pre]

\* lines 273-284: every firm apart, then the selected firms as one
Concentration(inside_shares, selected, fringe) ==
    LET n               == Len(inside_shares)
        pre_components  == inside_shares \o <<fringe>>
        hhi_pre         == hhi_from_components(pre_components)
        merged_share    == Sum(Pick(inside_shares, selected, TRUE))
        rivals          == Pick(inside_shares, selected, FALSE)
        post_components == <<merged_share>> \o rivals \o <<fringe>>
        hhi_post        == hhi_from_components(post_components)
    IN  [pre |-> hhi_pre, post |-> hhi_post, delta |-> hhi_post - hhi_pre]

\* the handler's response together with the closure cell it leaves behind
metrics_run(req) ==
    LET n             == Len(req.banks)
        raw_inside    == [i \in 1..n |-> req.banks[i].share]
        f_floor       == dynamic_fringe_floor(req.params.flex, req.params.entry,
                                              req.params.innov)
        norm_result   == normalize_shares(raw_inside, f_floor)
        inside_shares == norm_result.inside
        fringe        == norm_result.fringe
        total         == Sum(inside_shares) + fringe
        breadth       == apply_market_breadth(inside_shares, fringe, req.params.flex)
        hhi           == Concentration(inside_shares,
                             [i \in 1..n |-> req.banks[i].selected], fringe)
        vmm_result    == vmm_predict(req.params, req.seed, hhi.delta)
        pass_through  == ClampedPassThrough(req.params)
        bps           == BpsImpact(req.params, hhi.delta)
        welfare       == compute_welfare(bps, pass_through, req.params.conduct,
                                         req.params.entry, req.params.innov)
        risk          == risk_level(hhi.pre, hhi.post, req.policy)
        adj_sum       == Sum(breadth.inside) + breadth.fringe
        result        ==
            [raised      |-> "",
             hhi         |-> hhi,
             bpsImpact   |-> RoundTo(bps, 1),
             passThrough |-> RoundTo(pass_through, 2),
             welfare     |-> welfare,
             policy      |-> req.policy,
             risk        |-> risk,
             params      |-> req.params,
             series      |-> [months |-> Months,
                              actual |-> vmm_result.series.actual,
                              vmm    |-> vmm_result.series.vmm,
                              band   |-> vmm_result.conf_band],
             diag        |-> [shares_sum   |-> RoundTo(adj_sum, 3),
                              tolerance_ok |-> Abs(adj_sum - Unit) < Dec(1, 1000),
                              seed         |-> req.seed],
             structure   |-> [inside |-> inside_shares, fringe |-> fringe,
                              fringe_floor |-> f_floor]]
    IN  IF norm_result.raised # ""
        THEN [response |-> [raised |-> norm_result.raised], cell |-> rng]
        ELSE IF ~(Abs(total - Unit) < Tol9) \/ ~(fringe >= f_floor - Tol9)
        THEN [response |-> [raised |-> "AssertionError"], cell |-> rng]
        ELSE [response |-> result, cell |-> vmm_result.cell]

compute_metrics(req) == metrics_run(req).response

-----------------------------------------------------------------------------
(* Contestability-aware classifier: src/ui/formatting.py 17-32, 44-80 *)

\* Thresholds(warn_hhi_post=2000, warn_hhi_delta=150).to_dict(), for EU and SA
ThresholdsToDict(warn_hhi_post, warn_hhi_delta) ==
    [deltaHigh |-> warn_hhi_delta, postHigh |-> warn_hhi_post,
     deltaMed |-> warn_hhi_delta, postMed |-> warn_hhi_post]

EU == ThresholdsToDict(2000, 150)
SA == ThresholdsToDict(2000, 150)

_clamp(x, lo, hi) == Max(lo, Min(hi, x))

\* Thresholds(warn_hhi_post=2000, warn_hhi_delta=150): EU and SA alike
UiThresholds == [warn_hhi_post |-> 2000, warn_hhi_delta |-> 150]

\* the dashboard's threshold classifier, lines 34-40
ui_risk_level(hhi_pre, hhi_post, th) ==
    LET d == hhi_post - hhi_pre
    IN  IF hhi_post >= th.warn_hhi_post /\ d >= th.warn_hhi_delta THEN "High"
        ELSE IF hhi_post >= th.warn_hhi_post \/ d >= th.warn_hhi_delta THEN "Medium"
        ELSE "Low"

\* the structural signal without the max(0, ...) of line 59
Risk2Base_unclamped(hhi_pre, hhi_post, TH) ==
    LET delta == hhi_post - hhi_pre
    IN  FMul(Dec(6, 10), FDiv(delta, Max(1, TH.deltaHigh)))
            + FMul(Dec(4, 10), FDiv(hhi_post, Max(1, TH.postHigh)))

\* line 59 and line 62: the structural signal
Risk2Base(hhi_pre, hhi_post, TH) ==
    LET delta == Max(0, hhi_post - hhi_pre)
    IN  FMul(Dec(6, 10), FDiv(delta, Max(1, TH.deltaHigh)))
            + FMul(Dec(4, 10), FDiv(hhi_post, Max(1, TH.postHigh)))

\* pass-through damping instead of amplifying
Risk2AmpPt_inverted(pt) == Dec(13, 10) - FMul(Dec(6, 10), _clamp(pt, 0, Dec(15, 10)))

\* line 65
Risk2AmpPt(pt) == Dec(7, 10) + FMul(Dec(6, 10), _clamp(pt, 0, Dec(15, 10)))

\* entry barriers counted as mitigation: _clamp(entry) for _clamp(1.0 - entry)
Risk2Mitigation_entry(flex, entry, innov) ==
    LET innov_adj == _clamp(FDiv(innov - Unit, Dec(5, 10)), 0, Unit)
    IN  _clamp(FMul(Dec(50, 100), _clamp(flex, 0, Unit))
                   + FMul(Dec(30, 100), _clamp(entry, 0, Unit))
                   + FMul(Dec(20, 100), innov_adj),
               0, Dec(75, 100))

\* lines 68-69
Risk2Mitigation(flex, entry, innov) ==
    LET innov_adj == _clamp(FDiv(innov - Unit, Dec(5, 10)), 0, Unit)
    IN  _clamp(FMul(Dec(50, 100), _clamp(flex, 0, Unit))
                   + FMul(Dec(30, 100), _clamp(Unit - entry, 0, Unit))
                   + FMul(Dec(20, 100), innov_adj),
               0, Dec(75, 100))

risk_level2(hhi_pre, hhi_post, pt, flex, entry, innov, TH) ==
    LET base       == Risk2Base(hhi_pre, hhi_post, TH)
        amp_pt     == Risk2AmpPt(pt)
        mitigation == Risk2Mitigation(flex, entry, innov)
        idx        == FMul(FMul(base, amp_pt), Unit - mitigation)
    IN  IF idx >= Unit THEN "High"
        ELSE IF idx >= Dec(60, 100) THEN "Medium"
        ELSE "Low"

-----------------------------------------------------------------------------
(* IEEE binary64 arithmetic for the predictor (src/core/vmm_model.py).     *)
(* The predictor's diagnostics divide variances that are zero exactly when *)
(* no binary rounding happened, so its numbers are kept as the doubles the *)
(* code computes with: sign, a 53-bit significand and an exponent, every   *)
(* operation rounded to nearest, ties to even.  A significand is a natural *)
(* number written in limbs of 14 bits, least significant first.            *)
(* Magnitudes stay far from overflow and from subnormals.                  *)

Limb == 128 * 128
LimbBits == 14
Precision == 53

RECURSIVE Carry(_, _)
Carry(cols, c) ==
    IF cols = <<>>
    THEN IF c = 0 THEN <<>> ELSE <<c % Limb>> \o Carry(<<>>, c \div Limb)
    ELSE <<(Head(cols) + c) % Limb>>
             \o Carry(Tail(cols), (Head(cols) + c) \div Limb)

\* the limbs without zero limbs at the high end
RECURSIVE BTrim(_)
BTrim(a) ==
    IF a = <<>> THEN <<>>
    ELSE IF a[Len(a)] = 0 THEN BTrim(SubSeq(a, 1, Len(a) - 1))
    ELSE a

BLimb(a, i) == IF i \in 1..Len(a) THEN a[i] ELSE 0

BFromInt(n) == Carry(<<>>, n)

BAdd(a, b) ==
    Carry([i \in 1..Max(Len(a), Len(b)) |-> BLimb(a, i) + BLimb(b, i)], 0)

\* a - b for a >= b
RECURSIVE Borrow(_, _, _, _)
Borrow(a, b, i, c) ==
    IF i > Len(a) THEN <<>>
    ELSE <<(a[i] - BLimb(b, i) - c + Limb) % Limb>>
             \o Borrow(a, b, i + 1, IF a[i] - BLimb(b, i) - c < 0 THEN 1 ELSE 0)

BSub(a, b) == BTrim(Borrow(a, b, 1, 0))

\* -1, 0, 1 as a < b, a = b, a > b, for trimmed a and b
RECURSIVE BCmpFrom(_, _, _)
BCmpFrom(a, b, i) ==
    IF i = 0 THEN 0
    ELSE IF a[i] < b[i] THEN -1
    ELSE IF a[i] > b[i] THEN 1
    ELSE BCmpFrom(a, b, i - 1)

BCmp(a, b) ==
    IF Len(a) < Len(b) THEN -1
    ELSE IF Len(a) > Len(b) THEN 1
    ELSE BCmpFrom(a, b, Len(a))

BMulCol(a, b, k) ==
    Sum([i \in 1..Len(a) |-> a[i] * BLimb(b, k + 1 - i)])

BMul(a, b) ==
    BTrim(Carry([k \in 1..(Len(a) + Len(b) - 1) |-> BMulCol(a, b, k)], 0))

\* a * 2^n
BShl(a, n) ==
    BTrim(Carry([i \in 1..(Len(a) + (n \div LimbBits)) |->
                    IF i <= (n \div LimbBits) THEN 0
                    ELSE a[i - (n \div LimbBits)] * Pow2(n % LimbBits)], 0))

\* floor(a / 2^n)
BShr(a, n) ==
    BTrim([i \in 1..Max(0, Len(a) - (n \div LimbBits)) |->
              BLimb(a, i + (n \div LimbBits)) \div Pow2(n % LimbBits)
                  + (BLimb(a, i + 1 + (n \div LimbBits)) % Pow2(n % LimbBits))
                        * Pow2(LimbBits - (n % LimbBits))])

\* bit n of a, bit 0 the least significant
BBit(a, n) == (BLimb(a, 1 + (n \div LimbBits)) \div Pow2(n % LimbBits)) % 2

\* does a have a set bit below bit n
BLowBits(a, n) ==
    \/ \E i \in 1..(n \div LimbBits) : BLimb(a, i) # 0
    \/ BLimb(a, 1 + (n \div LimbBits)) % Pow2(n % LimbBits) # 0

RECURSIVE IntBits(_)
IntBits(n) == IF n = 0 THEN 0 ELSE 1 + IntBits(n \div 2)

\* number of bits of a trimmed, nonzero a
BBitLen(a) == (Len(a) - 1) * LimbBits + IntBits(a[Len(a)])

-----------------------------------------------------------------------------
(* Doubles *)

NaN == [k |-> "nan"]
Inf(s) == [k |-> "inf", s |-> s]
DZero == [k |-> "zero"]
DNum(s, m, e) == [k |-> "num", s |-> s, m |-> m, e |-> e]

\* the significand q of exactly Precision bits, or one bit more after a
\* round-up carried out of the top
DPack(s, q, e) ==
    IF BBitLen(q) > Precision THEN DNum(s, BShr(q, 1), e + 1) ELSE DNum(s, q, e)

\* nearest double to (-1)^s * M * 2^e, M > 0 trimmed; sticky says that the
\* exact value lies strictly above M * 2^e
DRoundCut(s, M, e, sticky, sh) ==
    DPack(s,
          IF BBit(M, sh - 1) = 1
                 /\ (sticky \/ BLowBits(M, sh - 1) \/ BBit(M, sh) = 1)
          THEN BAdd(BShr(M, sh), <<1>>)
          ELSE BShr(M, sh),
          e + sh)

DRound(s, M, e, sticky) ==
    IF BBitLen(M) <= Precision
    THEN DNum(s, BShl(M, Precision - BBitLen(M)), e - (Precision - BBitLen(M)))
    ELSE DRoundCut(s, M, e, sticky, BBitLen(M) - Precision)

\* an integer of the source as a double
DFromInt(n) ==
    IF n = 0 THEN DZero
    ELSE DRound(IF n < 0 THEN 1 ELSE 0, BFromInt(Abs(n)), 0, FALSE)

DNeg(x) ==
    CASE x.k = "num" -> DNum(1 - x.s, x.m, x.e)
      [] x.k = "inf" -> Inf(1 - x.s)
      [] OTHER -> x

DAbs(x) ==
    CASE x.k = "num" -> DNum(0, x.m, x.e)
      [] x.k = "inf" -> Inf(0)
      [] OTHER -> x

\* both significands on the smaller exponent
DAligned(x, y) ==
    [e  |-> Min(x.e, y.e),
     mx |-> BShl(x.m, x.e - Min(x.e, y.e)),
     my |-> BShl(y.m, y.e - Min(x.e, y.e))]

DAddAligned(x, y, a) ==
    IF x.s = y.s THEN DRound(x.s, BAdd(a.mx, a.my), a.e, FALSE)
    ELSE IF BCmp(a.mx, a.my) = 0 THEN DZero
    ELSE IF BCmp(a.mx, a.my) > 0 THEN DRound(x.s, BSub(a.mx, a.my), a.e, FALSE)
    ELSE DRound(y.s, BSub(a.my, a.mx), a.e, FALSE)

DAdd(x, y) ==
    CASE x.k = "nan" \/ y.k = "nan" -> NaN
      [] x.k = "inf" /\ y.k = "inf" -> IF x.s = y.s THEN x ELSE NaN
      [] x.k = "inf" /\ y.k \notin {"nan", "inf"} -> x
      [] y.k = "inf" /\ x.k \notin {"nan", "inf"} -> y
      [] x.k = "zero" /\ y.k \in {"zero", "num"} -> y
      [] x.k = "num" /\ y.k = "zero" -> x
      [] x.k = "num" /\ y.k = "num" -> DAddAligned(x, y, DAligned(x, y))

DSub(x, y) == DAdd(x, DNeg(y))

DSignOf(x) == IF x.k \in {"num", "inf"} THEN x.s ELSE 0

DMul(x, y) ==
    CASE x.k = "nan" \/ y.k = "nan" -> NaN
      [] (x.k = "inf" /\ y.k = "zero") \/ (x.k = "zero" /\ y.k = "inf") -> NaN
      [] x.k = "inf" /\ y.k \in {"inf", "num"} -> Inf((x.s + y.s) % 2)
      [] x.k = "num" /\ y.k = "inf" -> Inf((x.s + y.s) % 2)
      [] x.k = "zero" /\ y.k \in {"zero", "num"} -> DZero
      [] x.k = "num" /\ y.k = "zero" -> DZero
      [] x.k = "num" /\ y.k = "num" ->
             DRound((x.s + y.s) % 2, BMul(x.m, y.m), x.e + y.e, FALSE)

\* restoring division: n more quotient bits of r / d for r < d, the most
\* significant first, and the last remainder
RECURSIVE QuotBits(_, _, _)
QuotBits(r, d, n) ==
    IF n = 0 THEN [bits |-> <<>>, r |-> r]
    ELSE IF BCmp(BShl(r, 1), d) >= 0
    THEN LET rest == QuotBits(BSub(BShl(r, 1), d), d, n - 1)
         IN  [bits |-> <<1>> \o rest.bits, r |-> rest.r]
    ELSE LET rest == QuotBits(BShl(r, 1), d, n - 1)
         IN  [bits |-> <<0>> \o rest.bits, r |-> rest.r]

\* the natural number whose binary digits are bits, most significant first
BFromBits(bits) ==
    BTrim([j \in 1..((Len(bits) + LimbBits - 1) \div LimbBits) |->
              Sum([t \in 1..LimbBits |->
                      IF LimbBits * (j - 1) + t <= Len(bits)
                      THEN bits[Len(bits) + 1 - (LimbBits * (j - 1) + t)] * Pow2(t - 1)
                      ELSE 0])])

\* k more limbs of quotient bits, one limb at a time
RECURSIVE QuotLimbs(_, _, _)
QuotLimbs(r, d, k) ==
    IF k = 0 THEN [bits |-> <<>>, r |-> r]
    ELSE LET part == QuotBits(r, d, LimbBits)
             rest == QuotLimbs(part.r, d, k - 1)
         IN  [bits |-> part.bits \o rest.bits, r |-> rest.r]

\* floor(a * 2^(k * LimbBits) / d) and the remainder, for a < 2 * d
BQuot(a, d, k) ==
    IF BCmp(a, d) >= 0
    THEN LET rest == QuotLimbs(BSub(a, d), d, k)
         IN  [q |-> BFromBits(<<1>> \o rest.bits), r |-> rest.r]
    ELSE LET rest == QuotLimbs(a, d, k)
         IN  [q |-> BFromBits(rest.bits), r |-> rest.r]

DDivQuot(s, qr, e) == DRound(s, qr.q, e, qr.r # <<>>)

DDiv(x, y) ==
    CASE x.k = "nan" \/ y.k = "nan" -> NaN
      [] x.k = "inf" /\ y.k = "inf" -> NaN
      [] x.k = "inf" /\ y.k \in {"zero", "num"} -> Inf((x.s + DSignOf(y)) % 2)
      [] x.k \in {"zero", "num"} /\ y.k = "inf" -> DZero
      [] x.k = "zero" /\ y.k = "zero" -> NaN
      [] x.k = "zero" /\ y.k = "num" -> DZero
      [] x.k = "num" /\ y.k = "zero" -> Inf(x.s)
      [] x.k = "num" /\ y.k = "num" ->
             DDivQuot((x.s + y.s) % 2, BQuot(x.m, y.m, 4),
                      x.e - y.e - 4 * LimbBits)

\* the decimal literal n/d of the source: the double nearest to it
DLit(n, d) == DDiv(DFromInt(n), DFromInt(d))

\* x < y; false when either is NaN
DMagLess(x, y) == x.e < y.e \/ (x.e = y.e /\ BCmp(x.m, y.m) < 0)

DLess(x, y) ==
    CASE x.k = "nan" \/ y.k = "nan" -> FALSE
      [] x.k = "inf" /\ y.k = "inf" -> x.s = 1 /\ y.s = 0
      [] x.k = "inf" /\ y.k # "inf" /\ y.k # "nan" -> x.s = 1
      [] y.k = "inf" /\ x.k # "inf" /\ x.k # "nan" -> y.s = 0
      [] x.k = "zero" /\ y.k = "zero" -> FALSE
      [] x.k = "zero" /\ y.k = "num" -> y.s = 0
      [] x.k = "num" /\ y.k = "zero" -> x.s = 1
      [] x.k = "num" /\ y.k = "num" ->
             IF x.s # y.s THEN x.s = 1
             ELSE IF x.s = 0 THEN DMagLess(x, y) ELSE DMagLess(y, x)

-----------------------------------------------------------------------------
(* The counterfactual predictor: src/core/vmm_model.py.  A data frame is a  *)
(* sequence of rows [date, cds_actual]; a missing observation is NaN.       *)

\* np.add.reduce on floats: fewer than 8 elements are added in order
RECURSIVE DSumFrom(_, _, _)
DSumFrom(a, i, acc) ==
    IF i > Len(a) THEN acc ELSE DSumFrom(a, i + 1, DAdd(acc, a[i]))

\* from 8 to 128 elements: eight running sums over the full blocks of 8,
\* combined pairwise, then the rest in order
RECURSIVE DBlockSum(_, _, _, _)
DBlockSum(a, i, j, acc) ==
    IF i + 8 > Len(a) - (Len(a) % 8) THEN acc
    ELSE DBlockSum(a, i + 8, j, DAdd(acc, a[i + j]))

DSum(a) ==
    IF Len(a) < 8 THEN DSumFrom(a, 1, DZero)
    ELSE DSumFrom(a, Len(a) - (Len(a) % 8) + 1,
             DAdd(DAdd(DAdd(DBlockSum(a, 8, 1, a[1]), DBlockSum(a, 8, 2, a[2])),
                       DAdd(DBlockSum(a, 8, 3, a[3]), DBlockSum(a, 8, 4, a[4]))),
                  DAdd(DAdd(DBlockSum(a, 8, 5, a[5]), DBlockSum(a, 8, 6, a[6])),
                       DAdd(DBlockSum(a, 8, 7, a[7]), DBlockSum(a, 8, 8, a[8])))))

\* np.mean: the sum over the count, NaN (0/0) for an empty array
DMean(a) == DDiv(DSum(a), DFromInt(Len(a)))

DSquaredDev(a, arrmean) ==
    [i \in 1..Len(a) |-> DMul(DSub(a[i], arrmean), DSub(a[i], arrmean))]

\* np.var
DVar(a) == DMean(DSquaredDev(a, DMean(a)))

\* np.diff
DDiff(a) == [i \in 1..Max(0, Len(a) - 1) |-> DSub(a[i + 1], a[i])]

\* np.nanmean: the mean of the entries that are not NaN
DNanMean(a) == DMean(SelectSeq(a, LAMBDA x : x.k # "nan"))

\* line 6: the rows with an observation
PreRows(df) == SelectSeq(df, LAMBDA row : row.cds_actual.k # "nan")

\* lines 9-13: yhat[i] = alpha*y[i] + (1-alpha)*yhat[i-1], from index i on
RECURSIVE Ewma(_, _, _, _)
Ewma(y, alpha, i, prev) ==
    IF i > Len(y) THEN <<>>
    ELSE LET cur == DAdd(DMul(alpha, y[i]), DMul(DSub(DFromInt(1), alpha), prev))
         IN  <<cur>> \o Ewma(y, alpha, i + 1, cur)

\* lines 14-15
FitResult(pre, y, yhat) ==
    [raised |-> "", pre |-> pre, yhat |-> yhat,
     resid |-> [i \in 1..Len(y) |-> DSub(y[i], yhat[i])]]

\* lines 7-15 on the observed values y; yhat[0] = y[0] raises on an empty y
FitOn(pre, y) ==
    IF Len(y) = 0
    THEN [raised |-> "IndexError", pre |-> pre, yhat |-> <<>>, resid |-> <<>>]
    ELSE FitResult(pre, y, <<y[1]>> \o Ewma(y, DLit(2, 10), 2, y[1]))

CdsActual(rows) == [i \in 1..Len(rows) |-> rows[i].cds_actual]

fit_vmm_pre(df) == FitOn(PreRows(df), CdsActual(PreRows(df)))

\* lines 25-26: yhat_full[i] = yhat_full[i-1] + step, count more entries
RECURSIVE Continue(_, _, _)
Continue(prev, step, count) ==
    IF count = 0 THEN <<>>
    ELSE LET cur == DAdd(prev, step)
         IN  <<cur>> \o Continue(cur, step, count - 1)

\* lines 19-26; before the loop every entry is NaN, yhat_full[-1] included
YhatFull(n, yhat_pre) ==
    yhat_pre \o Continue(IF Len(yhat_pre) = 0 THEN NaN ELSE yhat_pre[Len(yhat_pre)],
                         DNanMean(DDiff(yhat_pre)), n - Len(yhat_pre))

\* lines 31-34: one row per resample; picks[b][i] is the index the
\* generator's choice drew for resample b and date i
Boots(yhat_full, resid, picks) ==
    [b \in 1..Len(picks) |->
        [i \in 1..Len(yhat_full) |-> DAdd(yhat_full[i], resid[picks[b][i]])]]

RECURSIVE DInsert(_, _)
DInsert(x, sorted) ==
    IF sorted = <<>> THEN <<x>>
    ELSE IF DLess(Head(sorted), x) THEN <<Head(sorted)>> \o DInsert(x, Tail(sorted))
    ELSE <<x>> \o sorted

RECURSIVE DSort(_)
DSort(a) == IF a = <<>> THEN <<>> ELSE DInsert(Head(a), DSort(Tail(a)))

BToInt(a) == Sum([i \in 1..Len(a) |-> a[i] * Limb ^ (i - 1)])

\* floor(x) as an integer, for 0 <= x < 2^28
DFloor(x) == IF x.k = "zero" THEN 0 ELSE BToInt(BShr(x.m, -x.e))

\* r with bit set
SqrtCand(r, bit) == BAdd(r, BShl(<<1>>, bit))

\* n more bits of floor(sqrt(N)), from bit downwards: a bit is set when the
\* square stays at most N
RECURSIVE SqrtBits(_, _, _, _)
SqrtBits(N, r, bit, n) ==
    IF n = 0 THEN r
    ELSE IF BCmp(BMul(SqrtCand(r, bit), SqrtCand(r, bit)), N) <= 0
    THEN SqrtBits(N, SqrtCand(r, bit), bit - 1, n - 1)
    ELSE SqrtBits(N, r, bit - 1, n - 1)

\* k more limbs of floor(sqrt(N))
RECURSIVE SqrtLimbs(_, _, _, _)
SqrtLimbs(N, r, bit, k) ==
    IF k = 0 THEN r
    ELSE SqrtLimbs(N, SqrtBits(N, r, bit, LimbBits), bit - LimbBits, k - 1)

DSqrtFrom(N, root) == DRound(0, root, -54, BCmp(BMul(root, root), N) # 0)

\* np.sqrt(n) for an integer 0 < n < 2^30: the root of n * 2^108, rounded
DSqrtInt(n) ==
    DSqrtFrom(BShl(BFromInt(n), 108),
              SqrtLimbs(BShl(BFromInt(n), 108), <<>>, 5 * LimbBits - 1, 5))

\* numpy's _lerp(a, b, t)
DLerp(a, b, t) ==
    IF DLess(t, DLit(5, 10))
    THEN DAdd(a, DMul(DSub(b, a), t))
    ELSE DSub(b, DMul(DSub(b, a), DSub(DFromInt(1), t)))

\* the entries of the sorted column around the virtual index, interpolated
DQuantileAt(sorted, virtual) ==
    IF DFloor(virtual) >= Len(sorted) - 1 THEN sorted[Len(sorted)]
    ELSE DLerp(sorted[DFloor(virtual) + 1], sorted[DFloor(virtual) + 2],
               DSub(virtual, DFromInt(DFloor(virtual))))

\* np.percentile(col, q), method "linear"; NaN as soon as one entry is NaN
DPercentile(col, q) ==
    IF \E i \in 1..Len(col) : col[i].k = "nan" THEN NaN
    ELSE DQuantileAt(DSort(col),
                     DMul(DFromInt(Len(col) - 1), DDiv(q, DFromInt(100))))

Column(boots, i) == [b \in 1..Len(boots) |-> boots[b][i]]

\* lines 35-36
PercentileRows(boots, n, q) == [i \in 1..n |-> DPercentile(Column(boots, i), q)]

DMax(a, b) ==
    IF a.k = "nan" \/ b.k = "nan" THEN NaN ELSE IF DLess(a, b) THEN b ELSE a

\* line 39
Mape(resid, y) ==
    DMul(DMean([i \in 1..Len(resid) |->
                   DDiv(DAbs(resid[i]), DMax(DLit(1, 1000000), y[i]))]),
         DFromInt(100))

\* line 40
RSquared(resid, y) == DSub(DFromInt(1), DDiv(DVar(resid), DVar(y)))

\* lines 38-42
FitStats(resid, y) ==
    [MAPE |-> Mape(resid, y), R2 |-> RSquared(resid, y), mean_resid |-> DMean(resid)]

\* lines 28-42 once yhat_full is known
PredictFrom(yhat_full, boots, pre, resid, ci) ==
    [raised    |-> "",
     yhat_full |-> yhat_full,
     lo        |-> PercentileRows(boots, Len(yhat_full),
                                  DMul(DSub(DFromInt(1), ci), DFromInt(50))),
     hi        |-> PercentileRows(boots, Len(yhat_full),
                       DSub(DFromInt(100), DMul(DSub(DFromInt(1), ci), DFromInt(50)))),
     fitstats  |-> FitStats(resid, CdsActual(pre))]

PredictOn(yhat_full, pre, resid, picks, ci) ==
    PredictFrom(yhat_full, Boots(yhat_full, resid, picks), pre, resid, ci)

\* rng.choice raises on an empty residual pool, np.vstack on no resample
predict_with_ci(df, pre, yhat_pre, resid, picks, ci) ==
    IF Len(resid) = 0 \/ Len(picks) = 0
    THEN [raised |-> "ValueError"]
    ELSE PredictOn(YhatFull(Len(df), yhat_pre), pre, resid, picks, ci)

-----------------------------------------------------------------------------
(* The simulated daily series: src/core/state_store.py 19-50.  Dates are    *)
(* day offsets from the merger date, which is day 0.                        *)

\* BASE_SHARES in the order StdBank, ABSA, FNB, Nedbank
BASE_SHARES == <<DLit(43, 100), DLit(31, 100), DLit(16, 100), DLit(10, 100)>>

\* baseline_scenario(), the fields simulate_cds_series reads
baseline_scenario ==
    [shares |-> BASE_SHARES, conduct |-> DLit(35, 100),
     entry_barriers |-> DLit(40, 100), merger_date |-> 0]

\* np.cumsum: the running sums z[1], z[1] + z[2], ... from index i on
RECURSIVE DCumsumFrom(_, _, _)
DCumsumFrom(z, i, acc) ==
    IF i > Len(z) THEN <<>>
    ELSE <<DAdd(acc, z[i])>> \o DCumsumFrom(z, i + 1, DAdd(acc, z[i]))

DCumsum(z) == IF Len(z) = 0 THEN <<>> ELSE <<z[1]>> \o DCumsumFrom(z, 2, z[1])

\* line 39: 130 + 5*normals.cumsum()/np.sqrt(len(dates))
Level0From(cumsum) ==
    [i \in 1..Len(cumsum) |->
        DAdd(DFromInt(130),
             DDiv(DMul(DFromInt(5), cumsum[i]), DSqrtInt(Len(cumsum))))]

Level0(normals) == Level0From(DCumsum(normals))

\* line 42: int(10000 * (weights**2).sum())
HhiLike(weights) ==
    DFloor(DMul(DFromInt(10000),
                DSum([i \in 1..Len(weights) |-> DMul(weights[i], weights[i])])))

\* line 43
DEffect(scn) ==
    DMul(DMul(DDiv(DFromInt(HhiLike(scn.shares)), DFromInt(10000)),
              DAdd(DLit(3, 10), DMul(DLit(7, 10), scn.conduct))),
         DAdd(DLit(6, 10), DMul(DLit(4, 10), scn.entry_barriers)))

\* line 44
Jump(scn) == DMul(DFromInt(6), DEffect(scn))

\* lines 45-46: the jump is added from the merger date on
SeriesFrom(scn, days_pre, level0) ==
    [i \in 1..Len(level0) |->
        IF (i - days_pre) + scn.merger_date >= scn.merger_date
        THEN DAdd(level0[i], Jump(scn)) ELSE level0[i]]

\* lines 47-50: the frame, its values after the merger date hidden
SimFrame(scn, days_pre, series) ==
    [i \in 1..Len(series) |->
        [date |-> (i - days_pre) + scn.merger_date,
         cds_actual |-> IF (i - days_pre) + scn.merger_date > scn.merger_date
                        THEN NaN ELSE series[i]]]

\* normals stands for rng.normal(size=len(dates)), days_pre + days_post long
simulate_cds_series(scn, days_pre, days_post, normals) ==
    SimFrame(scn, days_pre, SeriesFrom(scn, days_pre, Level0(normals)))

-----------------------------------------------------------------------------
(* Inputs *)

MaxFirms == 3

SeqsUpTo(S, n) == UNION {[1..k -> S] : k \in 0..n}

\* raw slider values: a negative one, zero, and the values of the tests
RawVals == {-Dec(20, 100), 0, Dec(30, 100), Dec(35, 100), Dec(45, 100)}

FloorVals == {Dec(10, 100), Dec(30, 100), Dec(50, 100)}

NoRng == <<0, 0>>

-----------------------------------------------------------------------------
(* SpecNorm: one call of normalize_shares on every bounded input *)

InitNorm ==
    /\ pc = "call"
    /\ request \in [raw_inside : SeqsUpTo(RawVals, MaxFirms), F_min : FloorVals]
    /\ response = Null
    /\ rng = NoRng
    /\ log = <<>>

CallNormalizeShares ==
    /\ pc = "call"
    /\ response' = normalize_shares(request.raw_inside, request.F_min)
    /\ pc' = "done"
    /\ UNCHANGED <<request, rng, log>>

NextNorm == CallNormalizeShares

SpecNorm == InitNorm /\ [][NextNorm]_vars

AllZero(raw) == \A i \in 1..Len(raw) : raw[i] <= 0

Simplex(out, F_min) ==
    /\ out.raised = ""
    /\ Abs(Sum(out.inside) + out.fringe - Unit) < Tol9
    /\ out.fringe >= F_min - Tol9

\* C1: for every list of raw shares and every floor, normalize_shares
\* returns inside shares and a fringe that sum to 1 within 1e-9, with the
\* fringe at least the floor within 1e-9.
C1_SimplexInvariant ==
    pc = "done" => Simplex(response, request.F_min)

\* the same with the empty list left out: what the code does guarantee
NormNonEmptySimplex ==
    (pc = "done" /\ Len(request.raw_inside) > 0)
        => Simplex(response, request.F_min)

\* C2: an empty list, a single firm or all-zero shares never divide by zero,
\* and all-zero shares give every firm the even split (1 - F_min) / n.
C2_NoDivisionByZero ==
    (pc = "done" /\ (Len(request.raw_inside) <= 1 \/ AllZero(request.raw_inside)))
        => /\ response.raised = ""
           /\ AllZero(request.raw_inside) =>
                 \A i \in 1..Len(request.raw_inside) :
                     response.inside[i] =
                         RoundDiv(Unit - request.F_min, Len(request.raw_inside))

\* the same with the empty list left out
NormDegenerateNonEmpty ==
    (pc = "done" /\ Len(request.raw_inside) > 0
        /\ (Len(request.raw_inside) = 1 \/ AllZero(request.raw_inside)))
        => /\ response.raised = ""
           /\ AllZero(request.raw_inside) =>
                 \A i \in 1..Len(request.raw_inside) :
                     response.inside[i] =
                         RoundDiv(Unit - request.F_min, Len(request.raw_inside))

-----------------------------------------------------------------------------
(* SpecHHI: the concentration indices of compute_metrics on every bounded  *)
(* bank list, and the two HHI functions on share vectors that sum to 1     *)

BankVals == [share : RawVals, selected : BOOLEAN]

\* share vectors on a grid of quarters and tenths that sum to exactly 1
GridVals == {0, Dec(10, 100), Dec(25, 100), Dec(40, 100), Dec(50, 100),
             Dec(75, 100), Dec(90, 100), Unit}

UnitVectors == {v \in SeqsUpTo(GridVals, MaxFirms) : Sum(v) = Unit}

InitHHI ==
    /\ pc = "call"
    /\ \/ request \in [kind : {"concentration"},
                       banks : SeqsUpTo(BankVals, MaxFirms), F_min : FloorVals]
       \/ request \in [kind : {"hhi"}, shares : UnitVectors]
    /\ response = Null
    /\ rng = NoRng
    /\ log = <<>>

\* lines 243-251 and 273-284 of compute_metrics for a given floor
CallConcentration ==
    /\ pc = "call"
    /\ request.kind = "concentration"
    /\ LET n    == Len(request.banks)
           norm == normalize_shares([i \in 1..n |-> request.banks[i].share],
                                    request.F_min)
       IN  response' =
               IF norm.raised # "" THEN [raised |-> norm.raised]
               ELSE [raised |-> "", inside |-> norm.inside, fringe |-> norm.fringe,
                     hhi |-> Concentration(norm.inside,
                                 [i \in 1..n |-> request.banks[i].selected],
                                 norm.fringe)]
    /\ pc' = "done"
    /\ UNCHANGED <<request, rng, log>>

CallHhi ==
    /\ pc = "call"
    /\ request.kind = "hhi"
    /\ response' = [raised |-> "",
                    hhi_from_components |-> hhi_from_components(request.shares),
                    compute_hhi |-> compute_hhi(request.shares)]
    /\ pc' = "done"
    /\ UNCHANGED <<request, rng, log>>

NextHHI == CallConcentration \/ CallHhi

SpecHHI == InitHHI /\ [][NextHHI]_vars

ConcentrationDone ==
    pc = "done" /\ request.kind = "concentration" /\ response.raised = ""

NumSelected(banks) == Cardinality({i \in 1..Len(banks) : banks[i].selected})

C4_HhiBounds ==
    /\ (pc = "done" /\ request.kind = "hhi") =>
           /\ response.hhi_from_components \in 0..10000
           /\ response.compute_hhi \in 0..10000
    /\ ConcentrationDone =>
           /\ Sum(response.inside) + response.fringe = Unit
           /\ response.hhi.pre \in 0..10000
           /\ response.hhi.post \in 0..10000

\* the monopoly vector reaches the upper bound, and a merger is scored
C4_Witness ==
    \/ /\ pc = "done" /\ request.kind = "hhi"
       /\ response.hhi_from_components = 10000
    \/ /\ ConcentrationDone
       /\ NumSelected(request.banks) >= 2
       /\ response.hhi.post > 5000

-----------------------------------------------------------------------------
(* SpecRisk: one call of the backend's risk_level *)

HhiVals == {1400, 1450, 1500, 1550, 1800, 1875, 1900, 2000, 2278, 2500, 3211}

InitRisk ==
    /\ pc = "call"
    /\ request \in [pre_hhi : HhiVals, post_hhi : HhiVals, policy : {"EU", "SA"}]
    /\ response = Null
    /\ rng = NoRng
    /\ log = <<>>

CallRiskLevel ==
    /\ pc = "call"
    /\ response' = [raised |-> "",
                    risk |-> risk_level(request.pre_hhi, request.post_hhi,
                                        request.policy)]
    /\ pc' = "done"
    /\ UNCHANGED <<request, rng, log>>

NextRisk == CallRiskLevel

SpecRisk == InitRisk /\ [][NextRisk]_vars

\* the verdict the thresholds table prescribes, written out per regime
TableVerdict(pre, post, policy) ==
    LET d  == post - pre
        eu == policy = "EU"
        high == IF eu THEN d >= 150 \/ post >= 2500 ELSE d >= 100 \/ post >= 2000
        med  == IF eu THEN d >= 100 \/ post >= 2000 ELSE d >= 50 \/ post >= 1500
    IN  IF high THEN "High" ELSE IF med THEN "Medium" ELSE "Low"

IsCall(pre, post, policy) ==
    /\ pc = "done"
    /\ request = [pre_hhi |-> pre, post_hhi |-> post, policy |-> policy]

\* C8: risk_level is High exactly when delta >= deltaHigh or post >= postHigh,
\* otherwise Medium exactly when delta >= deltaMed or post >= postMed,
\* otherwise Low (EU 2278->3211 High, EU 1500->1550 Low, SA 1800->1875 Medium).
C8_ThresholdVerdict ==
    pc = "done" =>
        /\ response.risk \in {"High", "Medium", "Low"}
        /\ response.risk =
               TableVerdict(request.pre_hhi, request.post_hhi, request.policy)
        /\ IsCall(2278, 3211, "EU") => response.risk = "High"
        /\ IsCall(1500, 1550, "EU") => response.risk = "Low"
        /\ IsCall(1800, 1875, "SA") => response.risk = "Medium"

\* a boundary case: delta exactly deltaHigh under EU, post below postHigh
C8_Witness ==
    /\ IsCall(1400, 1550, "EU")
    /\ response.risk = "High"

-----------------------------------------------------------------------------
(* SpecRisk2: one call of risk_level2 *)

PtVals    == {Dec(20, 100), Dec(60, 100), Dec(80, 100), Dec(160, 100)}
FlexVals  == {-Dec(20, 100), Dec(10, 100), Dec(50, 100), Dec(90, 100)}
EntryVals == {Dec(10, 100), Dec(50, 100), Dec(90, 100), Dec(120, 100)}
InnovVals == {Dec(80, 100), Dec(90, 100), Unit, Dec(130, 100)}

Hhi2Vals == {0, 1500, 2000, 2350, 3211}

InitRisk2 ==
    /\ pc = "call"
    /\ request \in [hhi_pre : Hhi2Vals, hhi_post : Hhi2Vals, pt : PtVals,
                    flex : FlexVals, entry : EntryVals, innov : InnovVals,
                    TH : {EU, SA}]
    /\ response = Null
    /\ rng = NoRng
    /\ log = <<>>

CallRiskLevel2 ==
    /\ pc = "call"
    /\ response' = [raised |-> "",
                    risk |-> risk_level2(request.hhi_pre, request.hhi_post,
                                 request.pt, request.flex, request.entry,
                                 request.innov, request.TH)]
    /\ pc' = "done"
    /\ UNCHANGED <<request, rng, log>>

NextRisk2 == CallRiskLevel2

SpecRisk2 == InitRisk2 /\ [][NextRisk2]_vars

Sev(v) == CASE v = "Low" -> 0 [] v = "Medium" -> 1 [] v = "High" -> 2

\* the verdict of the call in the state with some arguments replaced
Risk2With(r) ==
    risk_level2(r.hhi_pre, r.hhi_post, r.pt, r.flex, r.entry, r.innov, r.TH)

\* C6: with flex, entry, innov and the thresholds fixed, raising hhi_post,
\* lowering hhi_pre or raising pt never gives a less severe verdict.
C6_StructureMonotone ==
    pc = "done" =>
        /\ \A post2 \in Hhi2Vals : post2 >= request.hhi_post =>
               Sev(Risk2With([request EXCEPT !.hhi_post = post2])) >= Sev(response.risk)
        /\ \A pre2 \in Hhi2Vals : pre2 <= request.hhi_pre =>
               Sev(Risk2With([request EXCEPT !.hhi_pre = pre2])) >= Sev(response.risk)
        /\ \A pt2 \in PtVals : pt2 >= request.pt =>
               Sev(Risk2With([request EXCEPT !.pt = pt2])) >= Sev(response.risk)

\* the test's case: pass-through 0.2 is Medium where 0.8 is High
C6_Witness ==
    /\ pc = "done"
    /\ request = [hhi_pre |-> 2000, hhi_post |-> 2350, pt |-> Dec(20, 100),
                  flex |-> Dec(50, 100), entry |-> Dec(50, 100), innov |-> Unit,
                  TH |-> EU]
    /\ response.risk = "Medium"
    /\ Risk2With([request EXCEPT !.pt = Dec(80, 100)]) = "High"

\* C7: with hhi_pre, hhi_post, pt and the thresholds fixed, a scenario at
\* least as contestable (flex not lower, innov not lower, entry not higher)
\* never gets a more severe verdict.
C7_ContestabilityMonotone ==
    pc = "done" =>
        \A f2 \in FlexVals, e2 \in EntryVals, i2 \in InnovVals :
            (f2 >= request.flex /\ i2 >= request.innov /\ e2 <= request.entry) =>
                Sev(Risk2With([request EXCEPT !.flex = f2, !.entry = e2,
                                              !.innov = i2]))
                    <= Sev(response.risk)

\* Scenario 5: the low-contestability case is High, the high one is Low
C7_Witness ==
    /\ pc = "done"
    /\ request = [hhi_pre |-> 2000, hhi_post |-> 2350, pt |-> Dec(60, 100),
                  flex |-> Dec(10, 100), entry |-> Dec(90, 100),
                  innov |-> Dec(90, 100), TH |-> EU]
    /\ response.risk = "High"
    /\ Risk2With([request EXCEPT !.flex = Dec(90, 100), !.entry = Dec(10, 100),
                                 !.innov = Dec(130, 100)]) = "Low"

-----------------------------------------------------------------------------
(* SpecMetrics: one POST /metrics on every bounded scenario *)

Bank(name, selected, share) == [name |-> name, selected |-> selected, share |-> share]

\* the bank lists of the backend's tests, a single unselected bank, and
\* lists with one firm selected and with none
MetricsBanks ==
    {<<Bank("Standard", TRUE, Dec(32, 100)), Bank("ABSA", TRUE, Dec(23, 100)),
       Bank("FNB", FALSE, Dec(25, 100)), Bank("Nedbank", FALSE, Dec(20, 100))>>,
     <<Bank("Standard", TRUE, Dec(45, 100)), Bank("ABSA", TRUE, Dec(35, 100)),
       Bank("FNB", TRUE, Dec(35, 100)), Bank("Nedbank", TRUE, Dec(30, 100))>>,
     <<Bank("Standard", FALSE, Dec(50, 100))>>,
     <<Bank("Standard", FALSE, Dec(32, 100)), Bank("ABSA", TRUE, Dec(23, 100)),
       Bank("FNB", FALSE, Dec(25, 100)), Bank("Nedbank", FALSE, Dec(20, 100))>>,
     <<Bank("Standard", FALSE, Dec(45, 100)), Bank("ABSA", FALSE, Dec(35, 100)),
       Bank("FNB", FALSE, Dec(35, 100))>>}

\* slider values inside the nominal range [0, 1] and outside it
MetricsParams ==
    [conduct : {Dec(35, 100), Dec(150, 100), -Dec(50, 100)},
     flex    : {Dec(40, 100), Dec(120, 100)},
     entry   : {Dec(60, 100), Dec(140, 100)},
     innov   : {Unit, Dec(30, 100)}]

MetricsRequests ==
    [banks : MetricsBanks, params : MetricsParams,
     policy : {"EU", "SA", "US"}, seed : {123456}]

InitMetrics ==
    /\ pc = "call"
    /\ request \in MetricsRequests
    /\ response = Null
    /\ rng = NoRng
    /\ log = <<>>

PostMetrics ==
    /\ pc = "call"
    /\ \E run \in {metrics_run(request)} :
           /\ response' = run.response
           /\ rng' = run.cell
    /\ pc' = "done"
    /\ UNCHANGED <<request, log>>

NextMetrics == PostMetrics

SpecMetrics == InitMetrics /\ [][NextMetrics]_vars

UnknownPolicy == request.policy \notin DOMAIN POLICY_THRESHOLDS

\* C9: under a policy regime missing from the thresholds table the
\* evaluation does not fail, the verdict uses the default regime's
\* thresholds, and the output names the regime applied (the default).
C9_FallbackObservable ==
    (pc = "done" /\ UnknownPolicy) =>
        /\ response.raised = ""
        /\ response.risk = risk_level(response.hhi.pre, response.hhi.post, "EU")
        /\ response.policy = "EU"

\* what the code does do for an unknown regime: score it with EU, echo the request
MetricsFallbackScored ==
    (pc = "done" /\ UnknownPolicy) =>
        /\ response.raised = ""
        /\ response.risk = risk_level(response.hhi.pre, response.hhi.post, "EU")
        /\ response.policy = request.policy

\* the parameters with conduct, flex and entry clamped into [0, 1]
ClampedParams(params) ==
    [params EXCEPT !.conduct = _clamp(params.conduct, 0, Unit),
                   !.flex    = _clamp(params.flex, 0, Unit),
                   !.entry   = _clamp(params.entry, 0, Unit)]

\* C10: a behavioural parameter outside [0,1] is clamped at the point of
\* use: fringe floor, pass-through, price impact and welfare equal those of
\* the clamped parameters, and the scenario is not rejected.
C10_ClampedAtUse ==
    pc = "done" =>
        /\ response.raised = ""
        /\ LET ref == compute_metrics(
                          [request EXCEPT !.params = ClampedParams(request.params)])
           IN  /\ response.structure.fringe_floor = ref.structure.fringe_floor
               /\ response.passThrough = ref.passThrough
               /\ response.bpsImpact = ref.bpsImpact
               /\ response.welfare = ref.welfare

\* what the code does guarantee: no scenario of these is rejected
MetricsNeverRejected == pc = "done" => response.raised = ""

-----------------------------------------------------------------------------
(* SpecReplay: a sequence of POST /metrics evaluations, each logged *)

MaxEvals == 4

ReplayRequests ==
    [banks  : {<<Bank("Standard", TRUE, Dec(32, 100)), Bank("ABSA", TRUE, Dec(23, 100)),
                 Bank("FNB", FALSE, Dec(25, 100))>>},
     params : [conduct : {Dec(35, 100)}, flex : {Dec(40, 100)},
               entry : {Dec(60, 100), Dec(20, 100)}, innov : {Unit}],
     policy : {"EU"},
     seed   : {123, 123456}]

InitReplay ==
    /\ pc = "call"
    /\ request = Null
    /\ response = Null
    /\ rng = NoRng
    /\ log = <<>>

\* the handler runs to completion: it awaits nothing
Evaluate(req) ==
    /\ Len(log) < MaxEvals
    /\ \E run \in {metrics_run(req)} :
           /\ response' = run.response
           /\ rng' = run.cell
           /\ log' = Append(log, [request |-> req, response |-> run.response])
    /\ request' = req
    /\ pc' = "done"

NextReplay == \E req \in ReplayRequests : Evaluate(req)

SpecReplay == InitReplay /\ [][NextReplay]_vars

-----------------------------------------------------------------------------
(* SpecVmm: the dashboard's predictor calls, src/app.py 88-89: fit_vmm_pre *)
(* on a data frame, then predict_with_ci on what it returned               *)

MaxObs == 3
MaxHidden == 2
MaxBoot == 2

\* observed premiums in bps: 150.0, 100.09 and 212.9
ObsVals == {DFromInt(150), DLit(10009, 100), DLit(2129, 10)}

\* a frame of daily rows: the observations, then the hidden dates
Frame(obs, hidden) ==
    [i \in 1..(Len(obs) + hidden) |->
        [date |-> i, cds_actual |-> IF i <= Len(obs) THEN obs[i] ELSE NaN]]

\* twelve observations of 150, then one hidden date
ConstantFrame == Frame([i \in 1..12 |-> DFromInt(150)], 1)

VmmFrames ==
    {Frame(obs, h) : obs \in SeqsUpTo(ObsVals, MaxObs), h \in 1..MaxHidden}
        \cup {ConstantFrame}

\* what rng.choice may draw: boot_n rows of n indices into a pool of r
Resamples(boot_n, n, r) ==
    {[b \in 1..boot_n |-> [i \in 1..n |-> ((i + b + z) % r) + 1]] : z \in 0..1}

InitVmm ==
    /\ pc = "call"
    /\ request \in [df : VmmFrames, boot_n : 1..MaxBoot]
    /\ response = Null
    /\ rng = NoRng
    /\ log = <<>>

\* src/app.py 88
CallFit ==
    /\ pc = "call"
    /\ \E fit \in {fit_vmm_pre(request.df)} :
           /\ response' = fit
           /\ pc' = IF fit.raised = "" THEN "fitted" ELSE "done"
    /\ UNCHANGED <<request, rng, log>>

\* src/app.py 89
CallPredict ==
    /\ pc = "fitted"
    /\ \E picks \in Resamples(request.boot_n, Len(request.df), Len(response.resid)) :
           \E out \in {predict_with_ci(request.df, response.pre, response.yhat,
                                        response.resid, picks, DLit(95, 100))} :
               response' =
                   IF out.raised # "" THEN [raised |-> out.raised]
                   ELSE [raised |-> "", pre |-> response.pre,
                         yhat |-> response.yhat, resid |-> response.resid,
                         yhat_full |-> out.yhat_full, lo |-> out.lo,
                         hi |-> out.hi, fitstats |-> out.fitstats]
    /\ pc' = "done"
    /\ UNCHANGED <<request, rng, log>>

NextVmm == CallFit \/ CallPredict

SpecVmm == InitVmm /\ [][NextVmm]_vars

NumObserved(df) == Len(PreRows(df))

\* C11: with fewer than 2 observed pre-merger values (none or one), fit then
\* predict complete without raising and report a degenerate (NaN)
\* diagnostic instead of an ordinary number.
C11_InsufficientHistory ==
    (pc = "done" /\ NumObserved(request.df) < 2) =>
        /\ response.raised = ""
        /\ response.fitstats.R2 = NaN

\* what the code does for a single observation: no step, a NaN R-squared
VmmSingleObservation ==
    (pc = "done" /\ NumObserved(request.df) = 1) =>
        /\ response.raised = ""
        /\ response.fitstats.R2 = NaN
        /\ \A i \in 2..Len(request.df) : response.yhat_full[i] = NaN

\* every observed value of the frame equals its first, and there are two
IsConstantSeries(df) ==
    /\ NumObserved(df) >= 2
    /\ \A i \in 1..NumObserved(df) :
           PreRows(df)[i].cds_actual = PreRows(df)[1].cds_actual

ConstantLevel(df) == PreRows(df)[1].cds_actual

Degenerate(x) == x.k \in {"nan", "inf"}

\* C19: for a constant pre-merger series of level c (two points or more)
\* the smoother is c at every pre-merger index, every residual is 0, the
\* extrapolation is c at every post-merger index, nothing raises, and
\* R-squared is a degenerate value, not an ordinary number.
C19_ConstantSeries ==
    (pc = "done" /\ IsConstantSeries(request.df)) =>
        /\ response.raised = ""
        /\ \A i \in 1..Len(response.yhat) : response.yhat[i] = ConstantLevel(request.df)
        /\ \A i \in 1..Len(response.resid) : response.resid[i] = DZero
        /\ \A i \in 1..Len(request.df) :
               response.yhat_full[i] = ConstantLevel(request.df)
        /\ Degenerate(response.fitstats.R2)

\* the part of C19 that the code meets: nothing raises, and the level 150,
\* where the smoother's arithmetic is exact, gives all that C19 states
VmmConstantExactLevel ==
    (pc = "done" /\ IsConstantSeries(request.df)) =>
        /\ response.raised = ""
        /\ ConstantLevel(request.df) = DFromInt(150) =>
               /\ \A i \in 1..Len(response.resid) : response.resid[i] = DZero
               /\ \A i \in 1..Len(request.df) :
                      response.yhat_full[i] = DFromInt(150)
               /\ response.fitstats.R2 = NaN

\* three observations of 100.09: residuals 0, yet an R-squared of 1.0
VmmConstantOrdinaryR2 ==
    (pc = "done" /\ request.df = Frame([i \in 1..3 |-> DLit(10009, 100)], 1)) =>
        /\ \A i \in 1..3 : response.resid[i] = DZero
        /\ response.fitstats.R2 = DFromInt(1)

-----------------------------------------------------------------------------
(* SpecDelta: one call of one of the three risk classifiers on a pair of   *)
(* indices, falling pairs (hhi_post < hhi_pre) included                    *)

DeltaHhiVals == {1500, 2000, 2600, 3211}

DeltaRisk2Args ==
    [pt : {Dec(60, 100), Dec(160, 100)}, flex : {-Dec(20, 100), Dec(50, 100)},
     entry : {Dec(50, 100), Dec(120, 100)}, innov : {Dec(80, 100), Dec(130, 100)}]

InitDelta ==
    /\ pc = "call"
    /\ \/ request \in [classifier : {"backend"}, hhi_pre : DeltaHhiVals,
                       hhi_post : DeltaHhiVals, policy : {"EU", "SA"}]
       \/ request \in [classifier : {"ui"}, hhi_pre : DeltaHhiVals,
                       hhi_post : DeltaHhiVals, th : {UiThresholds}]
       \/ request \in [classifier : {"risk_level2"}, hhi_pre : DeltaHhiVals,
                       hhi_post : DeltaHhiVals, args : DeltaRisk2Args, TH : {EU, SA}]
    /\ response = Null
    /\ rng = NoRng
    /\ log = <<>>

\* the verdict of the request's classifier on the pair (pre, post)
Classify(req, pre, post) ==
    CASE req.classifier = "backend" -> risk_level(pre, post, req.policy)
      [] req.classifier = "ui" -> ui_risk_level(pre, post, req.th)
      [] req.classifier = "risk_level2" ->
             risk_level2(pre, post, req.args.pt, req.args.flex, req.args.entry,
                         req.args.innov, req.TH)

CallBackendRisk ==
    /\ pc = "call"
    /\ request.classifier = "backend"
    /\ response' = [raised |-> "",
                    risk |-> risk_level(request.hhi_pre, request.hhi_post,
                                        request.policy)]
    /\ pc' = "done"
    /\ UNCHANGED <<request, rng, log>>

CallUiRisk ==
    /\ pc = "call"
    /\ request.classifier = "ui"
    /\ response' = [raised |-> "",
                    risk |-> ui_risk_level(request.hhi_pre, request.hhi_post,
                                           request.th)]
    /\ pc' = "done"
    /\ UNCHANGED <<request, rng, log>>

CallContestRisk ==
    /\ pc = "call"
    /\ request.classifier = "risk_level2"
    /\ response' = [raised |-> "",
                    risk |-> risk_level2(request.hhi_pre, request.hhi_post,
                                 request.args.pt, request.args.flex,
                                 request.args.entry, request.args.innov,
                                 request.TH)]
    /\ pc' = "done"
    /\ UNCHANGED <<request, rng, log>>

NextDelta == CallBackendRisk \/ CallUiRisk \/ CallContestRisk

SpecDelta == InitDelta /\ [][NextDelta]_vars

\* C12: in every risk classifier a pair with hhi_post < hhi_pre is scored
\* with delta = 0: it gets the verdict of the pair (hhi_post, hhi_post).
C12_NegativeDeltaScoredAsZero ==
    (pc = "done" /\ request.hhi_post < request.hhi_pre) =>
        response.risk = Classify(request, request.hhi_post, request.hhi_post)

\* a falling pair that the contestability-aware classifier still flags
C12_Witness ==
    /\ pc = "done"
    /\ request.classifier = "risk_level2"
    /\ request.hhi_post < request.hhi_pre
    /\ response.risk = "Medium"

-----------------------------------------------------------------------------
(* SpecFloor: dynamic_fringe_floor called on two parameter settings, one   *)
(* after the other, values outside the nominal ranges included             *)

FloorFlexVals == {-Dec(200, 100), Dec(10, 100), Dec(90, 100), Dec(300, 100)}

FloorEntryVals == {-Dec(200, 100), Dec(10, 100), Dec(90, 100), Dec(300, 100)}

FloorInnovVals == {-Dec(100, 100), Dec(80, 100), Dec(120, 100), Dec(400, 100)}

FloorArgs == [flex : FloorFlexVals, entry : FloorEntryVals, innov : FloorInnovVals]

InitFloor ==
    /\ pc = "call"
    /\ request \in [first : FloorArgs, second : FloorArgs]
    /\ response = Null
    /\ rng = NoRng
    /\ log = <<>>

CallDynamicFringeFloor ==
    /\ pc \in {"call", "second"}
    /\ \E args \in {IF pc = "call" THEN request.first ELSE request.second} :
           /\ response' = [raised |-> "",
                           fringe_floor |-> dynamic_fringe_floor(args.flex,
                                                args.entry, args.innov)]
           /\ log' = Append(log, [args |-> args, fringe_floor |-> response'.fringe_floor])
    /\ pc' = IF pc = "call" THEN "second" ELSE "done"
    /\ UNCHANGED <<request, rng>>

NextFloor == CallDynamicFringeFloor

SpecFloor == InitFloor /\ [][NextFloor]_vars

\* C13: for all values of flex, entry and innov, the nominal ranges or not,
\* the floor dynamic_fringe_floor returns lies in [0.10, 0.50].
C13_FloorInRange ==
    \A i \in 1..Len(log) :
        /\ log[i].fringe_floor >= Dec(10, 100)
        /\ log[i].fringe_floor <= Dec(50, 100)

\* a call whose unclamped value lies above 0.50 and one whose lies below 0.10
C13_Witness ==
    /\ pc = "done"
    /\ log[1].args = [flex |-> Dec(300, 100), entry |-> -Dec(200, 100),
                      innov |-> Dec(400, 100)]
    /\ log[1].fringe_floor = Dec(50, 100)
    /\ log[2].args = [flex |-> -Dec(200, 100), entry |-> Dec(300, 100),
                      innov |-> -Dec(100, 100)]
    /\ log[2].fringe_floor = Dec(10, 100)

\* b is at least as contestable as a in every parameter
AtLeastAsContestable(a, b) ==
    a.flex <= b.flex /\ a.entry >= b.entry /\ a.innov <= b.innov

\* b is broader, lower-barrier and more innovative than a
MoreContestable(a, b) ==
    a.flex < b.flex /\ a.entry > b.entry /\ a.innov < b.innov

Unclamped(f) == Dec(10, 100) < f /\ f < Dec(50, 100)

\* C14: the floor is non-decreasing in flex and innov and non-increasing in
\* entry, and strictly larger for a broad, low-barrier, innovative market
\* than for a narrow, high-barrier, low-innovation one when neither value
\* is held at a clamp bound.
C14_FloorWidensWithContestability ==
    pc = "done" =>
        /\ AtLeastAsContestable(log[1].args, log[2].args) =>
               log[1].fringe_floor <= log[2].fringe_floor
        /\ ( /\ MoreContestable(log[1].args, log[2].args)
             /\ Unclamped(log[1].fringe_floor)
             /\ Unclamped(log[2].fringe_floor) ) =>
               log[1].fringe_floor < log[2].fringe_floor

\* the narrow and the broad market of test_backend.py, both off the bounds
C14_Witness ==
    /\ pc = "done"
    /\ log[1].args = [flex |-> Dec(10, 100), entry |-> Dec(90, 100),
                      innov |-> Dec(80, 100)]
    /\ log[2].args = [flex |-> Dec(90, 100), entry |-> Dec(10, 100),
                      innov |-> Dec(120, 100)]
    /\ Unclamped(log[1].fringe_floor)
    /\ Unclamped(log[2].fringe_floor)
    /\ log[1].fringe_floor < log[2].fringe_floor

-----------------------------------------------------------------------------
(* SpecPass: the pass-through of one scenario, computed at one of the four *)
(* places of the program that compute one                                  *)

PassConductVals == {0, Dec(35, 100), Unit, Dec(200, 100)}

PassFlexVals == {0, Dec(45, 100), Unit}

PassEntryVals == {0, Dec(40, 100), Unit}

PassParams ==
    [conduct : PassConductVals, flex : PassFlexVals, entry : PassEntryVals,
     innov : {Unit}]

PassSeed == 123456

PassDelta == 933

InitPass ==
    /\ pc = "call"
    /\ request \in [site : {"welfare", "compute_metrics", "vmm_predict", "dashboard"},
                    params : PassParams]
    /\ response = Null
    /\ rng = NoRng
    /\ log = <<>>

\* compute_metrics line 299: the value handed to compute_welfare
WelfarePassThrough ==
    /\ pc = "call"
    /\ request.site = "welfare"
    /\ response' = [raised |-> "", pass_through |-> ClampedPassThrough(request.params)]
    /\ pc' = "done"
    /\ UNCHANGED <<request, rng, log>>

\* compute_metrics line 310: the value reported as passThrough
MetricsPassThrough ==
    /\ pc = "call"
    /\ request.site = "compute_metrics"
    /\ response' = [raised |-> "",
                    pass_through |-> RoundTo(ClampedPassThrough(request.params), 2)]
    /\ pc' = "done"
    /\ UNCHANGED <<request, rng, log>>

\* vmm_predict line 190: the value in the returned dict
VmmPassThrough ==
    /\ pc = "call"
    /\ request.site = "vmm_predict"
    /\ \E out \in {vmm_predict(request.params, PassSeed, PassDelta)} :
           /\ response' = [raised |-> "", pass_through |-> out.pass_through]
           /\ rng' = out.cell
    /\ pc' = "done"
    /\ UNCHANGED <<request, log>>

\* src/app.py line 98: the value the dashboard feeds to risk_level2
DashboardPassThrough ==
    /\ pc = "call"
    /\ request.site = "dashboard"
    /\ request.params.conduct <= Unit
    /\ response' = [raised |-> "",
                    pass_through |-> core_pass_through(request.params.conduct,
                                         request.params.flex, request.params.entry)]
    /\ pc' = "done"
    /\ UNCHANGED <<request, rng, log>>

NextPass ==
    WelfarePassThrough \/ MetricsPassThrough \/ VmmPassThrough \/ DashboardPassThrough

SpecPass == InitPass /\ [][NextPass]_vars

\* clamp(0.3 + 0.4*conduct + 0.2*entry_barriers - 0.1*demand_flex, 0.05, 0.95)
StatedPassThrough(params) ==
    Max(Dec(5, 100), Min(Dec(95, 100),
        Dec(3, 10) + FMul(Dec(4, 10), params.conduct)
            + FMul(Dec(2, 10), params.entry) - FMul(Dec(1, 10), params.flex)))

\* C15: every pass-through the program computes for a scenario equals
\* clamp(0.3 + 0.4*conduct + 0.2*entry_barriers - 0.1*demand_flex, 0.05, 0.95),
\* at the welfare decomposition, in compute_metrics' report, in
\* vmm_predict's result and in the dashboard.
C15_PassThroughEverywhere ==
    pc = "done" => response.pass_through = StatedPassThrough(request.params)

\* the part of C15 that the code meets: compute_welfare is handed the
\* stated value, and the report shows it rounded to two decimals
PassThroughInComputeMetrics ==
    /\ (pc = "done" /\ request.site = "welfare") =>
           response.pass_through = StatedPassThrough(request.params)
    /\ (pc = "done" /\ request.site = "compute_metrics") =>
           response.pass_through = RoundTo(StatedPassThrough(request.params), 2)

\* vmm_predict leaves the stated interval only outside the nominal ranges
VmmPassThroughInNominalRange ==
    (pc = "done" /\ request.site = "vmm_predict" /\ request.params.conduct <= Unit) =>
        response.pass_through = StatedPassThrough(request.params)

-----------------------------------------------------------------------------
(* SpecWelfare: one call of compute_welfare *)

WelfareBpsVals == {Dec(22184, 10000), Dec(138, 10), Dec(2175, 100), -Dec(50, 10)}

WelfarePtVals == {Dec(5, 100), Dec(475, 1000), Dec(52, 100), Dec(95, 100)}

WelfareArgs ==
    [bps : WelfareBpsVals, pass_through : WelfarePtVals,
     conduct : {Dec(35, 100), Unit}, entry : {0, Dec(60, 100)},
     innov : {Dec(30, 100), Unit, Dec(130, 100)}]

InitWelfare ==
    /\ pc = "call"
    /\ request \in WelfareArgs
    /\ response = Null
    /\ rng = NoRng
    /\ log = <<>>

CallComputeWelfare ==
    /\ pc = "call"
    /\ response' = [raised |-> "",
                    welfare |-> compute_welfare(request.bps, request.pass_through,
                                    request.conduct, request.entry, request.innov)]
    /\ pc' = "done"
    /\ UNCHANGED <<request, rng, log>>

NextWelfare == CallComputeWelfare

SpecWelfare == InitWelfare /\ [][NextWelfare]_vars

\* C16: in every welfare decomposition compute_welfare returns, the reported
\* net equals the sum of the four reported components, and the reported
\* deadweight component is never positive.
C16_NetIsSumOfReported ==
    pc = "done" =>
        /\ response.welfare.net = response.welfare.cons + response.welfare.merged
                                      + response.welfare.rivals
                                      + response.welfare.deadweight
        /\ response.welfare.deadweight <= 0

\* the part of C16 that the code meets: the deadweight sign, and a net
\* within the rounding of the five reported values
WelfareNetWithinRounding ==
    pc = "done" =>
        /\ response.welfare.deadweight <= 0
        /\ Abs(response.welfare.net
                   - (response.welfare.cons + response.welfare.merged
                          + response.welfare.rivals + response.welfare.deadweight))
               <= Dec(2, 1000)

-----------------------------------------------------------------------------
(* SpecRng: one generator made by mulberry32 and drawn from repeatedly *)

MaxDraws == 12

SeedVals == {-2147483647, -123456, -1, 0, 1, 7, 123, 123456, 65535, 65536,
             1831565813, 2147483647}

InitRng ==
    /\ pc = "new"
    /\ request \in [seed : SeedVals]
    /\ response = Null
    /\ rng = NoRng
    /\ log = <<>>

\* rand = mulberry32(seed)
MakeGenerator ==
    /\ pc = "new"
    /\ rng' = mulberry32(request.seed)
    /\ pc' = "ready"
    /\ UNCHANGED <<request, response, log>>

\* rand()
Draw ==
    /\ pc = "ready"
    /\ Len(log) < MaxDraws
    /\ \E d \in {rng_call(rng)} :
           /\ rng' = d.cell
           /\ response' = [raised |-> "", value |-> d.value]
           /\ log' = Append(log, d.value)
    /\ UNCHANGED <<pc, request>>

NextRng == MakeGenerator \/ Draw

SpecRng == InitRng /\ [][NextRng]_vars

\* a 32-bit word: both halves in [0, 2^16)
IsWord(w) == w[1] \in 0..(W16 - 1) /\ w[2] \in 0..(W16 - 1)

-----------------------------------------------------------------------------
(* SpecStreams: two generators made by mulberry32, drawn from and made     *)
(* anew in every order.  Here rng holds the two closures' cells.           *)

MaxEvents == 4

StreamSeeds == {7, 123, 123456}

InitStreams ==
    /\ pc = "ready"
    /\ request \in [seeds : [1..2 -> StreamSeeds]]
    /\ response = Null
    /\ rng = [g \in 1..2 |-> mulberry32(request.seeds[g])]
    /\ log = <<>>

\* rand_g()
DrawFrom(g) ==
    /\ pc = "ready"
    /\ Len(log) < MaxEvents
    /\ \E out \in {stream_call(rng, g)} :
           /\ rng' = out.cells
           /\ response' = [raised |-> "", value |-> out.value]
           /\ log' = Append(log, [g |-> g, op |-> "draw", value |-> out.value])
    /\ UNCHANGED <<pc, request>>

\* rand_g = mulberry32(seed_g), again
Recreate(g) ==
    /\ pc = "ready"
    /\ Len(log) < MaxEvents
    /\ rng' = [rng EXCEPT ![g] = mulberry32(request.seeds[g])]
    /\ log' = Append(log, [g |-> g, op |-> "new", value |-> 0])
    /\ UNCHANGED <<pc, request, response>>

NextStreams == \E g \in 1..2 : DrawFrom(g) \/ Recreate(g)

SpecStreams == InitStreams /\ [][NextStreams]_vars

\* the index of the last creation of generator g in the log, 0 for the first
LastNew(g) ==
    LET made == {i \in 1..Len(log) : log[i].g = g /\ log[i].op = "new"}
    IN  IF made = {} THEN 0 ELSE CHOOSE i \in made : \A j \in made : j <= i

IsDrawOf1(e) == e.g = 1 /\ e.op = "draw"

IsDrawOf2(e) == e.g = 2 /\ e.op = "draw"

\* the values generator g returned since it was last made
DrawnSinceNew(g) ==
    LET later == SubSeq(log, LastNew(g) + 1, Len(log))
        mine  == IF g = 1 THEN SelectSeq(later, IsDrawOf1)
                 ELSE SelectSeq(later, IsDrawOf2)
    IN  [i \in 1..Len(mine) |-> mine[i].value]

\* the first n values of a generator made from seed and drawn from alone
Alone(seed, n) ==
    LET alone == RandStream(ToWord(seed), n)
    IN  [i \in 1..n |-> alone[i].value]

\* C18: under every interleaving of the draws of two generators, and of
\* their re-creations, each generator returns exactly the sequence it
\* returns when drawn from alone since it was made.
C18_StreamsIndependent ==
    \A g \in 1..2 :
        DrawnSinceNew(g) = Alone(request.seeds[g], Len(DrawnSinceNew(g)))

\* equal seeds, draws interleaved, then generator 1 made anew and drawn from
C18_Witness ==
    /\ request.seeds[1] = request.seeds[2]
    /\ Len(log) = 4
    /\ log[1].g = 1 /\ log[1].op = "draw"
    /\ log[2].g = 2 /\ log[2].op = "draw"
    /\ log[3].g = 1 /\ log[3].op = "new"
    /\ log[4].g = 1 /\ log[4].op = "draw"
    /\ log[4].value = log[1].value
    /\ log[2].value = log[1].value

-----------------------------------------------------------------------------
(* SpecSeries: one price series generated, by the dashboard's              *)
(* simulate_cds_series followed by the fit, or by the backend's            *)
(* vmm_predict                                                             *)

MaxPre == 3

MaxPost == 2

\* what rng.normal may draw
NormalVals == {DNeg(DLit(3, 4)), DLit(13, 10)}

SimScenarios ==
    {baseline_scenario,
     [baseline_scenario EXCEPT !.conduct = DFromInt(1), !.entry_barriers = DZero]}

SeriesSeeds == {7, 123456}

InitSeries ==
    /\ pc = "call"
    /\ \/ \E days_pre \in 1..MaxPre, days_post \in 1..MaxPost :
              request \in [kind : {"dashboard"}, scn : SimScenarios,
                           days_pre : {days_pre}, days_post : {days_post},
                           normals : [1..(days_pre + days_post) -> NormalVals]]
       \/ request \in [kind : {"backend"}, params : PassParams, seed : SeriesSeeds,
                       hhi_delta : {PassDelta}]
    /\ response = Null
    /\ rng = NoRng
    /\ log = <<>>

\* src/app.py 87
CallSimulate ==
    /\ pc = "call"
    /\ request.kind = "dashboard"
    /\ response' = [raised |-> "",
                    df |-> simulate_cds_series(request.scn, request.days_pre,
                               request.days_post, request.normals)]
    /\ pc' = "simulated"
    /\ UNCHANGED <<request, rng, log>>

\* src/app.py 88
CallFitSimulated ==
    /\ pc = "simulated"
    /\ \E fit \in {fit_vmm_pre(response.df)} :
           response' = [raised |-> fit.raised, df |-> response.df, pre |-> fit.pre,
                        yhat |-> fit.yhat, resid |-> fit.resid]
    /\ pc' = "fitted"
    /\ UNCHANGED <<request, rng, log>>

\* src/backend/app.py 289
CallVmmPredict ==
    /\ pc = "call"
    /\ request.kind = "backend"
    /\ \E out \in {vmm_predict(request.params, request.seed, request.hhi_delta)} :
           /\ response' = [raised |-> "", months |-> Months, series |-> out.series]
           /\ rng' = out.cell
    /\ pc' = "done"
    /\ UNCHANGED <<request, log>>

NextSeries == CallSimulate \/ CallFitSimulated \/ CallVmmPredict

SpecSeries == InitSeries /\ [][NextSeries]_vars

\* C20: in every generated price series an observed value is present
\* exactly for the dates strictly before the merger date, so the fit uses
\* no observation dated on or after the merger.
C20_ObservedStrictlyBeforeMerger ==
    /\ pc \in {"simulated", "fitted"} =>
           \A i \in 1..Len(response.df) :
               (response.df[i].cds_actual # NaN)
                   <=> (response.df[i].date < request.scn.merger_date)
    /\ pc = "fitted" =>
           \A i \in 1..Len(response.pre) :
               response.pre[i].date < request.scn.merger_date
    /\ pc = "done" =>
           \A j \in 1..25 :
               (response.series.actual[j] # <<>>) <=> (j - 1 < 12)

\* what the code does: the backend's series is observed for the twelve
\* months before "M" only, while the simulated series is observed up to and
\* on the merger date, and the fit reads that row, which carries the jump
SeriesObservedThroughMergerDate ==
    /\ pc = "done" =>
           /\ response.months[13] = "M"
           /\ \A j \in 1..25 :
                  (response.series.actual[j] # <<>>) <=> (j - 1 < 12)
    /\ pc \in {"simulated", "fitted"} =>
           \A i \in 1..Len(response.df) :
               (response.df[i].cds_actual # NaN)
                   <=> (response.df[i].date <= request.scn.merger_date)
    /\ pc = "fitted" =>
           /\ response.raised = ""
           /\ response.pre[Len(response.pre)].date = request.scn.merger_date
           /\ response.pre[Len(response.pre)].cds_actual =
                  DAdd(Level0(request.normals)[request.days_pre], Jump(request.scn))
           /\ DLess(DLit(1, 2), Jump(request.scn))

-----------------------------------------------------------------------------
(* SpecBreadth: one call of apply_market_breadth on a share structure that *)
(* sums to 1, as compute_metrics hands it over after normalize_shares      *)

\* the inside shares and the fringe of a vector that sums to 1
BreadthStructures ==
    {[inside |-> SubSeq(v, 1, Len(v) - 1), fringe |-> v[Len(v)]] :
        v \in {u \in UnitVectors : Len(u) >= 2}}

\* flex inside its nominal range [0, 1] and outside it
BreadthFlexVals == {-Unit, 0, Dec(40, 100), Unit, Dec(120, 100)}

InitBreadth ==
    /\ pc = "call"
    /\ request \in [structure : BreadthStructures, flex : BreadthFlexVals]
    /\ response = Null
    /\ rng = NoRng
    /\ log = <<>>

CallApplyMarketBreadth ==
    /\ pc = "call"
    /\ \E out \in {apply_market_breadth(request.structure.inside,
                                        request.structure.fringe, request.flex)} :
           response' = [raised |-> "", inside |-> out.inside, fringe |-> out.fringe]
    /\ pc' = "done"
    /\ UNCHANGED <<request, rng, log>>

NextBreadth == CallApplyMarketBreadth

SpecBreadth == InitBreadth /\ [][NextBreadth]_vars

\* 0.30 * flex, the fraction of the inside mass that is to move
MovedFraction(flex) == FMul(Dec(30, 100), flex)

\* x and y agree up to the rounding of the arithmetic
Close(x, y) == Abs(x - y) <= Tol9

\* C21: for a structure that sums to 1 with positive inside mass and flex
\* in [0, 1], apply_market_breadth scales every inside share by
\* 1 - 0.30*flex, adds 0.30*flex*sum(inside) to the fringe, and the result
\* sums to 1.
C21_BreadthMovesFraction ==
    ( /\ pc = "done"
      /\ Sum(request.structure.inside) > 0
      /\ request.flex >= 0 /\ request.flex <= Unit ) =>
        /\ \A i \in 1..Len(response.inside) :
               Close(response.inside[i],
                     FMul(request.structure.inside[i],
                          Unit - MovedFraction(request.flex)))
        /\ Close(response.fringe,
                 request.structure.fringe
                     + FMul(MovedFraction(request.flex),
                            Sum(request.structure.inside)))
        /\ Close(Sum(response.inside) + response.fringe, Unit)

\* two firms of 0.50 and 0.25 with a fringe of 0.25 at flex 0.4: the firms
\* come out at 0.44 and 0.22, the fringe at 0.34
C21_Witness ==
    /\ pc = "done"
    /\ request.structure = [inside |-> <<Dec(50, 100), Dec(25, 100)>>,
                            fringe |-> Dec(25, 100)]
    /\ request.flex = Dec(40, 100)
    /\ response.inside = <<Dec(44, 100), Dec(22, 100)>>
    /\ response.fringe = Dec(34, 100)

-----------------------------------------------------------------------------
(* The share structure behind the indices of compute_metrics (SpecMetrics) *)

RawInside(req) == [i \in 1..Len(req.banks) |-> req.banks[i].share]

SelectedFlags(req) == [i \in 1..Len(req.banks) |-> req.banks[i].selected]

\* the structure the share normaliser returns for the request
Normalised(req) ==
    normalize_shares(RawInside(req),
        dynamic_fringe_floor(req.params.flex, req.params.entry, req.params.innov))

\* the indices of a structure in which the selected firms merge
IndicesOf(req, structure) ==
    Concentration(structure.inside, SelectedFlags(req), structure.fringe)

\* the normalised structure after the market-breadth adjuster
BreadthAdjusted(req) ==
    apply_market_breadth(Normalised(req).inside, Normalised(req).fringe,
                         req.params.flex)

\* C22: the pre-merger HHI, post-merger HHI and delta that compute_metrics
\* reports are those of the breadth-adjusted inside shares and fringe.
C22_IndicesFromAdjustedShares ==
    (pc = "done" /\ response.raised = "") =>
        response.hhi = IndicesOf(request, BreadthAdjusted(request))

\* what the code does: the indices, like the structure reported, are those
\* of the normalised shares before the breadth adjuster
MetricsIndicesFromNormalisedShares ==
    (pc = "done" /\ response.raised = "") =>
        /\ response.hhi = IndicesOf(request, Normalised(request))
        /\ response.structure.inside = Normalised(request).inside
        /\ response.structure.fringe = Normalised(request).fringe

=============================================================================
